---- MODULE Spec2Model ----
(***************************************************************************)
(* Presence registry, session handlers and message store of the Flask-     *)
(* SocketIO chatroom (src/app.py).  The server runs with                    *)
(* async_mode='threading': every event handler and every threading.Timer   *)
(* callback runs on a thread of its own.  Handlers that only touch the      *)
(* in-memory registry are one action each; the places where a thread is     *)
(* known to be suspended are separate steps: the Timer thread between its   *)
(* is_set() test and the call of its function, and the database commits of  *)
(* handle_message and handle_mark_read.                                     *)
(*                                                                          *)
(* Strings are sequences of one-character strings so that str.strip() is    *)
(* computed, not assumed.                                                   *)
(***************************************************************************)
EXTENDS Integers, Sequences, FiniteSets, TLC

\* Bounds of the model: the connections (sids) of the two-user, two-room
\* specification and of the one-user, one-room specification, and the number
\* of Timer threads alive at once.
NumSids == 2
NumRaceSids == 3
MaxTimers == 2
MaxMessages == 2

Sids == 1..NumSids
RaceSids == 1..NumRaceSids
AllSids == Sids \cup RaceSids

\* Payloads a client may send as data['username'] and data['room'].
UsernameInputs == { <<" ", "a">>, <<"b">> }
RoomInputs == { <<>>, <<"x", " ">>, <<"y">> }
RaceUsernameInputs == { <<" ">>, <<" ", "a">> }
RaceRoomInputs == { <<"x", " ">> }

\* Payloads of send_message (data['content']) and mark_read (data['message_ids']).
ContentInputs == { <<" ">>, <<"h", " ">> }
MessageIds == 1..(MaxMessages + 1)
MessageIdsInputs == { << >> } \cup { <<i>> : i \in MessageIds }
                    \cup { <<i, j>> : i \in MessageIds, j \in MessageIds }

VARIABLES
    conn,                 \* transport state of each sid: "new", "connected", "gone"
    online_users,         \* app.py:84   {sid: {'username', 'room'}}
    room_users,           \* app.py:87   {room: set(usernames)}
    global_online,        \* app.py:90   set of usernames
    pending_disconnects,  \* app.py:93   {(username, room): {'timer', 'sid'}}
    explicit_leaves,      \* app.py:96   set of sids
    timers,               \* the live threading.Timer threads started at app.py:176-178
    messages,             \* app.py:38   the message table; a row's id is its index
    receipts,             \* app.py:65   the read_receipt table: (message_id, username) -> number of rows
    sending,              \* the handle_message threads between their commits and their emit
    marking,              \* the handle_mark_read threads between their loop and their commit
    joining,              \* the handle_join threads between their conflict test and add_user_to_room
    request,              \* the event handled by the last step, its request.sid and where it returned
    emitted,              \* the events emitted by the last step
    delivered,            \* history: the ids of the "new_message" broadcasts, in order
    grace                 \* history per (username, room): "user_left" broadcasts since its grace period began

vars == << conn, online_users, room_users, global_online, pending_disconnects,
           explicit_leaves, timers, messages, receipts, sending, marking, joining,
           request, emitted, delivered, grace >>

registry == << online_users, room_users, global_online, pending_disconnects, timers >>

store == << messages, receipts, sending, marking, joining >>

----------------------------------------------------------------------------
\* Python helpers: str.strip, dict assignment, dict deletion.

RECURSIVE LStrip(_)
LStrip(s) == IF s # <<>> /\ Head(s) = " " THEN LStrip(Tail(s)) ELSE s

RECURSIVE RStrip(_)
RStrip(s) == IF s # <<>> /\ s[Len(s)] = " " THEN RStrip(SubSeq(s, 1, Len(s) - 1)) ELSE s

Strip(s) == RStrip(LStrip(s))

Put(d, k, v) == [x \in (DOMAIN d) \cup {k} |-> IF x = k THEN v ELSE d[x]]

Del(d, k) == [x \in (DOMAIN d) \ {k} |-> d[x]]

EmptyDict == [x \in {} |-> x]

\* The handler that ran (the name given to @socketio.on, or "timer"), the sid
\* of its request (0 for the Timer thread) and the branch it took.
Handled(event, sid, outcome) == [event |-> event, sid |-> sid, outcome |-> outcome]

\* The same for handle_mark_read, with the message ids it worked on.
MarkHandled(sid, outcome, message_ids) ==
    [event |-> "mark_read", sid |-> sid, outcome |-> outcome, message_ids |-> message_ids]

----------------------------------------------------------------------------
\* Presence tracking (app.py:99-227).

\* list(room_users.get(room, set())), on a given value of room_users.
RoomUsersIn(ru, room) == IF room \in DOMAIN ru THEN ru[room] ELSE {}

get_room_users(room) == RoomUsersIn(room_users, room)

get_global_online == global_online

\* Timer.cancel(): sets the timer's finished flag.  The timer thread tests the
\* flag once, after its wait and before it calls the function: a timer still
\* waiting exits without calling it (it leaves the set of live timers), a
\* timer past the test calls the function all the same.
TimerCancel(ts, t) ==
    IF ts[t].state = "waiting" THEN Del(ts, t) ELSE [ts EXCEPT ![t].cancelled = TRUE]

\* The identity of a Timer object created now.
NewTimer(ts) == CHOOSE t \in 1..(MaxTimers + 1) :
                   /\ t \notin DOMAIN ts
                   /\ \A i \in 1..(t - 1) : i \in DOMAIN ts

\* room_users[room].discard(username) without the deletion of an emptied set.
DiscardKeepingEmptyRoom(username, room) ==
    IF room \in DOMAIN room_users
    THEN Put(room_users, room, room_users[room] \ {username})
    ELSE room_users

\* room_users[room].discard(username); if not room_users[room]: del room_users[room]
DiscardFromRoom(username, room) ==
    IF room \in DOMAIN room_users
    THEN IF room_users[room] \ {username} = {}
         THEN Del(room_users, room)
         ELSE Put(room_users, room, room_users[room] \ {username})
    ELSE room_users

add_user_to_room(sid, username, room) ==
    LET pending_key == <<username, room>> IN
    /\ IF pending_key \in DOMAIN pending_disconnects
       THEN /\ timers' = TimerCancel(timers, pending_disconnects[pending_key].timer)
            /\ pending_disconnects' = Del(pending_disconnects, pending_key)
       ELSE UNCHANGED << timers, pending_disconnects >>
    /\ online_users' = Put(online_users, sid, [username |-> username, room |-> room])
    /\ room_users' = Put(room_users, room, get_room_users(room) \cup {username})
    /\ global_online' = global_online \cup {username}

\* remove_user_immediately discarding the username from every room and
\* dropping every pending disconnect of the username.
remove_user_everywhere(username, room) ==
    LET still_online == \E s \in DOMAIN online_users : online_users[s].username = username
        left == [r \in DOMAIN room_users |-> room_users[r] \ {username}]
    IN
    /\ pending_disconnects' = [k \in { p \in DOMAIN pending_disconnects : p[1] # username }
                                 |-> pending_disconnects[k]]
    /\ room_users' = [r \in { x \in DOMAIN left : left[x] # {} } |-> left[r]]
    /\ global_online' = IF still_online THEN global_online ELSE global_online \ {username}
    /\ emitted' = << [event |-> "user_left", to |-> "room", room |-> room,
                      username |-> username,
                      room_users |-> RoomUsersIn(room_users', room),
                      global_online |-> global_online'] >>
    /\ UNCHANGED online_users

remove_user_immediately(username, room) ==
    LET pending_key == <<username, room>>
        still_online == \E s \in DOMAIN online_users : online_users[s].username = username
    IN
    /\ pending_disconnects' = Del(pending_disconnects, pending_key)
    /\ room_users' = DiscardFromRoom(username, room)
    /\ global_online' = IF still_online THEN global_online ELSE global_online \ {username}
    /\ emitted' = << [event |-> "user_left", to |-> "room", room |-> room,
                      username |-> username,
                      room_users |-> RoomUsersIn(room_users', room),
                      global_online |-> global_online'] >>
    /\ UNCHANGED online_users

schedule_user_removal(sid, username, room) ==
    LET pending_key == <<username, room>>
        cancelled == IF pending_key \in DOMAIN pending_disconnects
                     THEN TimerCancel(timers, pending_disconnects[pending_key].timer)
                     ELSE timers
    IN
    /\ timers' = Put(cancelled, NewTimer(cancelled),
                      [username |-> username, room |-> room,
                       state |-> "waiting", cancelled |-> FALSE])
    /\ pending_disconnects' = Put(pending_disconnects, pending_key,
                                  [timer |-> NewTimer(cancelled), sid |-> sid])

\* remove_user_from_tracking without the still_in_room test of lines 218-223:
\* a disconnect always starts the grace period.
remove_user_from_tracking_always_scheduling(sid, immediate) ==
    IF sid \notin DOMAIN online_users
    THEN UNCHANGED registry
    ELSE
    LET username == online_users[sid].username
        room == online_users[sid].room
        rest == Del(online_users, sid)
        pending_key == <<username, room>>
    IN
    /\ online_users' = rest
    /\ IF immediate
       THEN /\ room_users' = DiscardFromRoom(username, room)
            /\ global_online' = IF \E s \in DOMAIN rest : rest[s].username = username
                                THEN global_online
                                ELSE global_online \ {username}
            /\ IF pending_key \in DOMAIN pending_disconnects
               THEN /\ timers' = TimerCancel(timers, pending_disconnects[pending_key].timer)
                    /\ pending_disconnects' = Del(pending_disconnects, pending_key)
               ELSE UNCHANGED << timers, pending_disconnects >>
       ELSE /\ UNCHANGED << room_users, global_online >>
            /\ schedule_user_removal(sid, username, room)

\* The body after the early return of line 191-192; the callers test
\* sid \in DOMAIN online_users for the returned user_info.
remove_user_from_tracking(sid, immediate) ==
    IF sid \notin DOMAIN online_users
    THEN UNCHANGED registry
    ELSE
    LET user_info == online_users[sid]
        username == user_info.username
        room == user_info.room
        rest == Del(online_users, sid)
        pending_key == <<username, room>>
    IN
    /\ online_users' = rest
    /\ IF immediate
       THEN LET still_online == \E s \in DOMAIN rest : rest[s].username = username IN
            /\ room_users' = DiscardFromRoom(username, room)
            /\ global_online' = IF still_online THEN global_online
                                ELSE global_online \ {username}
            /\ IF pending_key \in DOMAIN pending_disconnects
               THEN /\ timers' = TimerCancel(timers, pending_disconnects[pending_key].timer)
                    /\ pending_disconnects' = Del(pending_disconnects, pending_key)
               ELSE UNCHANGED << timers, pending_disconnects >>
       ELSE LET still_in_room == \E s \in DOMAIN rest :
                                    rest[s].username = username /\ rest[s].room = room IN
            /\ UNCHANGED << room_users, global_online >>
            /\ IF ~still_in_room
               THEN schedule_user_removal(sid, username, room)
               ELSE UNCHANGED << timers, pending_disconnects >>

----------------------------------------------------------------------------
\* Database models (app.py:38-76).

\* [r.username for r in message.read_receipts.all()], on a given table; the
\* query has no ORDER BY, so the list is taken as the set of its elements.
ReadByIn(rs, id) == { k[2] : k \in { x \in DOMAIN rs : x[1] = id } }

\* db.session.add(ReadReceipt(message_id=id, username=username)), committed.
InsertReceipt(rs, id, username) ==
    Put(rs, <<id, username>>,
        IF <<id, username>> \in DOMAIN rs THEN rs[<<id, username>>] + 1 ELSE 1)

\* The read_receipt table without its unique constraint.
NoUniqueConstraint(rs, id, username) == FALSE

\* __table_args__ = (db.UniqueConstraint('message_id', 'username'), ): an
\* INSERT of a row that is already there raises IntegrityError.
UniqueViolation(rs, id, username) == <<id, username>> \in DOMAIN rs

\* db.session.commit() of the receipts added for ids: the table afterwards, or
\* the table as it was (the transaction is rolled back) with ok = FALSE.
RECURSIVE CommitReceipts(_, _, _, _)
CommitReceipts(before, rs, ids, username) ==
    IF ids = << >> THEN [ok |-> TRUE, table |-> rs]
    ELSE IF UniqueViolation(rs, Head(ids), username)
    THEN [ok |-> FALSE, table |-> before]
    ELSE CommitReceipts(before, InsertReceipt(rs, Head(ids), username), Tail(ids), username)

\* Message.to_dict (the timestamp is left out).
to_dict(id) ==
    [id |-> id, room |-> messages[id].room, username |-> messages[id].username,
     content |-> messages[id].content, read_by |-> ReadByIn(receipts, id)]

\* Message.query.filter_by(room=room).order_by(Message.timestamp.asc()).all(),
\* each row through to_dict.
History(room) ==
    LET ids == SelectSeq([i \in 1..Len(messages) |-> i],
                         LAMBDA i : messages[i].room = room)
    IN [i \in 1..Len(ids) |-> to_dict(ids[i])]

\* ReadReceipt.query.filter_by(message_id=..., username=...).first() is not None
HasReceipt(rs, id, username) == <<id, username>> \in DOMAIN rs

----------------------------------------------------------------------------
\* Socket.IO event handlers (app.py:244-379).

HandleConnect(sid) ==
    /\ conn[sid] = "new"
    /\ conn' = [conn EXCEPT ![sid] = "connected"]
    /\ request' = Handled("connect", sid, "connected")
    /\ emitted' = << >>
    /\ UNCHANGED << registry, explicit_leaves, store >>

\* A disconnect that has to start a grace timer needs a free timer slot.
NeedsTimer(sid) ==
    /\ sid \notin explicit_leaves
    /\ sid \in DOMAIN online_users
    /\ ~ \E s \in DOMAIN online_users : s # sid /\ online_users[s] = online_users[sid]

\* handle_disconnect without the explicit_leaves test of lines 266-269.
HandleDisconnectIgnoringFlag(sid) ==
    /\ conn[sid] = "connected"
    /\ NeedsTimer(sid) => Cardinality(DOMAIN timers) < MaxTimers
    /\ conn' = [conn EXCEPT ![sid] = "gone"]
    /\ emitted' = << >>
    /\ UNCHANGED store
    /\ explicit_leaves' = explicit_leaves \ {sid}
    /\ request' = Handled("disconnect", sid, "grace_period")
    /\ IF sid \in DOMAIN online_users
       THEN /\ online_users' = Del(online_users, sid)
            /\ UNCHANGED << room_users, global_online >>
            /\ schedule_user_removal(sid, online_users[sid].username,
                                     online_users[sid].room)
       ELSE UNCHANGED registry

HandleDisconnect(sid) ==
    /\ conn[sid] = "connected"
    /\ NeedsTimer(sid) => Cardinality(DOMAIN timers) < MaxTimers
    /\ conn' = [conn EXCEPT ![sid] = "gone"]
    /\ emitted' = << >>
    /\ UNCHANGED store
    /\ IF sid \in explicit_leaves
       THEN /\ explicit_leaves' = explicit_leaves \ {sid}
            /\ request' = Handled("disconnect", sid, "explicit_leave")
            /\ UNCHANGED registry
       ELSE /\ remove_user_from_tracking(sid, FALSE)
            /\ request' = Handled("disconnect", sid,
                                  IF sid \notin DOMAIN online_users THEN "no_user_info"
                                  ELSE IF NeedsTimer(sid) THEN "grace_period"
                                  ELSE "still_in_room")
            /\ UNCHANGED explicit_leaves

HandleJoin(sid, data_username, data_room) ==
    LET username == Strip(data_username)
        room == Strip(data_room)
        pending_key == <<username, room>>
        is_reconnecting == pending_key \in DOMAIN pending_disconnects
        taken == /\ room \in DOMAIN room_users
                 /\ username \in room_users[room]
                 /\ ~is_reconnecting
                 /\ \E s \in DOMAIN online_users :
                       /\ online_users[s].username = username
                       /\ online_users[s].room = room
                       /\ s # sid
        should_notify_join == ~is_reconnecting
    IN
    /\ conn[sid] = "connected"
    /\ UNCHANGED << conn, explicit_leaves, store >>
    /\ IF username = <<>> \/ room = <<>>
       THEN /\ emitted' = << [event |-> "error", to |-> "caller",
                              message |-> "Username and room are required"] >>
            /\ request' = Handled("join", sid, "required")
            /\ UNCHANGED registry
       ELSE IF taken
       THEN /\ emitted' = << [event |-> "error", to |-> "caller",
                              message |-> "Username is already taken in this room"] >>
            /\ request' = Handled("join", sid, "taken")
            /\ UNCHANGED registry
       ELSE /\ add_user_to_room(sid, username, room)
            /\ request' = Handled("join", sid,
                                  IF is_reconnecting THEN "reconnected" ELSE "joined")
            /\ emitted' =
                 << [event |-> "room_joined", to |-> "caller",
                     room |-> room, username |-> username,
                     messages |-> History(room),
                     room_users |-> RoomUsersIn(room_users', room),
                     global_online |-> global_online'] >>
                 \o (IF should_notify_join
                     THEN << [event |-> "user_joined", to |-> "room_except_self",
                              room |-> room, username |-> username,
                              room_users |-> RoomUsersIn(room_users', room),
                              global_online |-> global_online'] >>
                     ELSE << >>)

\* handle_join as its thread runs it when other handlers run meanwhile: the
\* validation and the conflict test of lines 295-316 first ...
JoinCheck(sid, data_username, data_room) ==
    LET username == Strip(data_username)
        room == Strip(data_room)
        pending_key == <<username, room>>
        is_reconnecting == pending_key \in DOMAIN pending_disconnects
        taken == /\ room \in DOMAIN room_users
                 /\ username \in room_users[room]
                 /\ ~is_reconnecting
                 /\ \E s \in DOMAIN online_users :
                       /\ online_users[s].username = username
                       /\ online_users[s].room = room
                       /\ s # sid
    IN
    /\ conn[sid] = "connected"
    /\ sid \notin DOMAIN joining
    /\ UNCHANGED << conn, registry, explicit_leaves, messages, receipts, sending, marking >>
    /\ IF username = <<>> \/ room = <<>>
       THEN /\ emitted' = << [event |-> "error", to |-> "caller",
                              message |-> "Username and room are required"] >>
            /\ request' = Handled("join", sid, "required")
            /\ UNCHANGED joining
       ELSE IF taken
       THEN /\ emitted' = << [event |-> "error", to |-> "caller",
                              message |-> "Username is already taken in this room"] >>
            /\ request' = Handled("join", sid, "taken")
            /\ UNCHANGED joining
       ELSE /\ emitted' = << >>
            /\ request' = Handled("join", sid, "checked")
            /\ joining' = Put(joining, sid, [username |-> username, room |-> room,
                                             should_notify_join |-> ~is_reconnecting])

\* ... and then lines 319-345: add_user_to_room and the emits.
JoinRegister(sid) ==
    /\ sid \in DOMAIN joining
    /\ LET username == joining[sid].username
           room == joining[sid].room
       IN /\ add_user_to_room(sid, username, room)
          /\ request' = Handled("join", sid,
                                IF joining[sid].should_notify_join THEN "joined"
                                ELSE "reconnected")
          /\ emitted' =
               << [event |-> "room_joined", to |-> "caller",
                   room |-> room, username |-> username,
                   messages |-> History(room),
                   room_users |-> RoomUsersIn(room_users', room),
                   global_online |-> global_online'] >>
               \o (IF joining[sid].should_notify_join
                   THEN << [event |-> "user_joined", to |-> "room_except_self",
                            room |-> room, username |-> username,
                            room_users |-> RoomUsersIn(room_users', room),
                            global_online |-> global_online'] >>
                   ELSE << >>)
    /\ joining' = Del(joining, sid)
    /\ UNCHANGED << conn, explicit_leaves, messages, receipts, sending, marking >>

HandleLeave(sid) ==
    /\ conn[sid] = "connected"
    /\ explicit_leaves' = explicit_leaves \cup {sid}
    /\ remove_user_from_tracking(sid, TRUE)
    /\ request' = Handled("leave", sid,
                          IF sid \in DOMAIN online_users THEN "left" ELSE "no_user_info")
    /\ emitted' = IF sid \in DOMAIN online_users
                  THEN LET room == online_users[sid].room
                           username == online_users[sid].username IN
                       << [event |-> "user_left", to |-> "room", room |-> room,
                           username |-> username,
                           room_users |-> RoomUsersIn(room_users', room),
                           global_online |-> global_online'],
                          [event |-> "left_room", to |-> "caller",
                           room |-> room] >>
                  ELSE << >>
    /\ UNCHANGED << conn, store >>

----------------------------------------------------------------------------
\* handle_message (app.py:382-420), one step per database commit and one for
\* the emit: other threads run while a thread waits for the database.

\* Lines 393-410 without the .strip() of line 393.
SendMessageUntrimmed(sid, data_content) ==
    LET content == data_content IN
    /\ conn[sid] = "connected"
    /\ sid \notin DOMAIN sending
    /\ UNCHANGED << conn, registry, explicit_leaves, receipts, marking, joining >>
    /\ IF content = << >>
       THEN /\ emitted' = << >>
            /\ request' = Handled("send_message", sid, "empty")
            /\ UNCHANGED << messages, sending >>
       ELSE IF sid \notin DOMAIN online_users
       THEN /\ emitted' = << [event |-> "error", to |-> "caller",
                              message |-> "You are not in a room"] >>
            /\ request' = Handled("send_message", sid, "not_in_room")
            /\ UNCHANGED << messages, sending >>
       ELSE /\ Len(messages) < MaxMessages
            /\ messages' = Append(messages, [room |-> online_users[sid].room,
                                             username |-> online_users[sid].username,
                                             content |-> content])
            /\ sending' = Put(sending, sid, [pc |-> "receipt",
                                             id |-> Len(messages) + 1,
                                             username |-> online_users[sid].username,
                                             room |-> online_users[sid].room])
            /\ request' = Handled("send_message", sid, "message_committed")
            /\ emitted' = << >>

\* Lines 393-410: validation, the lookup of the sender, the commit of the Message.
SendMessage(sid, data_content) ==
    LET content == Strip(data_content) IN
    /\ conn[sid] = "connected"
    /\ sid \notin DOMAIN sending
    /\ UNCHANGED << conn, registry, explicit_leaves, receipts, marking, joining >>
    /\ IF content = << >>
       THEN /\ emitted' = << >>
            /\ request' = Handled("send_message", sid, "empty")
            /\ UNCHANGED << messages, sending >>
       ELSE IF sid \notin DOMAIN online_users
       THEN /\ emitted' = << [event |-> "error", to |-> "caller",
                              message |-> "You are not in a room"] >>
            /\ request' = Handled("send_message", sid, "not_in_room")
            /\ UNCHANGED << messages, sending >>
       ELSE /\ Len(messages) < MaxMessages
            /\ messages' = Append(messages, [room |-> online_users[sid].room,
                                             username |-> online_users[sid].username,
                                             content |-> content])
            /\ sending' = Put(sending, sid, [pc |-> "receipt",
                                             id |-> Len(messages) + 1,
                                             username |-> online_users[sid].username,
                                             room |-> online_users[sid].room])
            /\ request' = Handled("send_message", sid, "message_committed")
            /\ emitted' = << >>

\* Lines 412-415: the sender's own ReadReceipt.  The commit raises
\* IntegrityError (unique_read_receipt, line 76) when the row already exists,
\* and the handler ends there.
SendReceipt(sid) ==
    /\ sid \in DOMAIN sending
    /\ sending[sid].pc = "receipt"
    /\ LET commit == CommitReceipts(receipts, receipts, << sending[sid].id >>,
                                    sending[sid].username)
       IN /\ receipts' = commit.table
          /\ IF commit.ok
             THEN /\ request' = Handled("send_message", sid, "receipt_committed")
                  /\ sending' = [sending EXCEPT ![sid].pc = "emit"]
             ELSE /\ request' = Handled("send_message", sid, "integrity_error")
                  /\ sending' = Del(sending, sid)
    /\ emitted' = << >>
    /\ UNCHANGED << conn, registry, explicit_leaves, messages, marking, joining >>

\* Line 418: emit('new_message', message.to_dict(), room=room)
SendEmit(sid) ==
    /\ sid \in DOMAIN sending
    /\ sending[sid].pc = "emit"
    /\ emitted' = << [event |-> "new_message", to |-> "room",
                      room |-> sending[sid].room,
                      message |-> to_dict(sending[sid].id)] >>
    /\ sending' = Del(sending, sid)
    /\ request' = Handled("send_message", sid, "broadcast")
    /\ UNCHANGED << conn, registry, explicit_leaves, messages, receipts, marking, joining >>

----------------------------------------------------------------------------
\* handle_mark_read (app.py:423-482): the loop, then the commit and the emit.

\* The loop of lines 447-463 with a lookup by id alone, without room=room.
RECURSIVE UpdatedMessagesOfAnyRoom(_, _, _, _)
UpdatedMessagesOfAnyRoom(message_ids, username, room, updated_messages) ==
    IF message_ids = << >> THEN updated_messages
    ELSE LET msg_id == Head(message_ids)
             found == msg_id \in 1..Len(messages)
             existing == \/ HasReceipt(receipts, msg_id, username)
                         \/ \E i \in 1..Len(updated_messages) : updated_messages[i] = msg_id
         IN UpdatedMessagesOfAnyRoom(Tail(message_ids), username, room,
                                     IF found /\ ~existing
                                     THEN Append(updated_messages, msg_id)
                                     ELSE updated_messages)

\* The loop of lines 447-463: the ids for which a ReadReceipt is added to the
\* session.  The session autoflushes before each query, so the query of line
\* 454 also sees the receipts this loop has added.
RECURSIVE UpdatedMessages(_, _, _, _)
UpdatedMessages(message_ids, username, room, updated_messages) ==
    IF message_ids = << >> THEN updated_messages
    ELSE LET msg_id == Head(message_ids)
             found == msg_id \in 1..Len(messages) /\ messages[msg_id].room = room
             existing == \/ HasReceipt(receipts, msg_id, username)
                         \/ \E i \in 1..Len(updated_messages) : updated_messages[i] = msg_id
         IN UpdatedMessages(Tail(message_ids), username, room,
                            IF found /\ ~existing
                            THEN Append(updated_messages, msg_id)
                            ELSE updated_messages)

MarkRead(sid, message_ids) ==
    /\ conn[sid] = "connected"
    /\ sid \notin DOMAIN marking
    /\ emitted' = << >>
    /\ UNCHANGED << conn, registry, explicit_leaves, messages, receipts, sending, joining >>
    /\ IF message_ids = << >> \/ sid \notin DOMAIN online_users
       THEN /\ request' = MarkHandled(sid, "ignored", message_ids)
            /\ UNCHANGED marking
       ELSE LET username == online_users[sid].username
                room == online_users[sid].room
                updated_messages == UpdatedMessages(message_ids, username, room, << >>)
            IN IF updated_messages = << >>
               THEN /\ request' = MarkHandled(sid, "nothing_updated", message_ids)
                    /\ UNCHANGED marking
               ELSE /\ request' = MarkHandled(sid, "receipts_added", message_ids)
                    /\ marking' = Put(marking, sid,
                                      [username |-> username, room |-> room,
                                       updated_messages |-> updated_messages])

\* Lines 465-482: db.session.commit() inserts the receipts, or raises
\* IntegrityError (unique_read_receipt) and inserts none when another thread
\* has committed one of them meanwhile; then the aggregated broadcast.
MarkReadCommit(sid) ==
    /\ sid \in DOMAIN marking
    /\ LET username == marking[sid].username
           room == marking[sid].room
           updated_messages == marking[sid].updated_messages
           commit == CommitReceipts(receipts, receipts, updated_messages, username)
       IN /\ receipts' = commit.table
          /\ IF ~commit.ok
             THEN /\ request' = MarkHandled(sid, "integrity_error", updated_messages)
                  /\ emitted' = << >>
             ELSE /\ request' = MarkHandled(sid, "broadcast", updated_messages)
                  /\ emitted' = << [event |-> "read_receipts_updated", to |-> "room",
                                    room |-> room,
                                    updates |-> [i \in 1..Len(updated_messages) |->
                                        [message_id |-> updated_messages[i],
                                         read_by |-> ReadByIn(receipts', updated_messages[i])]],
                                    reader |-> username] >>
    /\ marking' = Del(marking, sid)
    /\ UNCHANGED << conn, registry, explicit_leaves, messages, sending, joining >>

----------------------------------------------------------------------------
\* The Timer thread started at app.py:176-178: after the grace period it tests
\* its finished flag, and then calls remove_user_immediately(username, room).

TimerFire(t) ==
    /\ timers[t].state = "waiting"
    /\ timers' = [timers EXCEPT ![t].state = "running"]
    /\ request' = Handled("timer", 0, "fired")
    /\ emitted' = << >>
    /\ UNCHANGED << conn, online_users, room_users, global_online,
                    pending_disconnects, explicit_leaves, store >>

TimerCallback(t) ==
    /\ timers[t].state = "running"
    /\ remove_user_immediately(timers[t].username, timers[t].room)
    /\ timers' = Del(timers, t)
    /\ request' = Handled("timer", 0, IF timers[t].cancelled THEN "superseded" ELSE "expired")
    /\ UNCHANGED << conn, explicit_leaves, store >>

----------------------------------------------------------------------------
\* History, per (username, room): "open" from the moment a disconnect starts a
\* grace timer for the pair, "left" once one "user_left" of the pair has been
\* broadcast since then, "twice" once a second one has; "none" again as soon
\* as a join of the pair is accepted.

Joined(es, username, room) ==
    \E i \in 1..Len(es) : /\ es[i].event = "room_joined"
                          /\ es[i].username = username /\ es[i].room = room

Announced(es, username, room) ==
    \E i \in 1..Len(es) : /\ es[i].event = "user_joined"
                          /\ es[i].username = username /\ es[i].room = room

Left(es, username, room) ==
    \E i \in 1..Len(es) : /\ es[i].event = "user_left"
                          /\ es[i].username = username /\ es[i].room = room

Users == { Strip(u) : u \in UsernameInputs } \ { <<>> }
Rooms == { Strip(r) : r \in RoomInputs } \ { <<>> }
Keys == Users \X Rooms

TimerStarted(k) ==
    \E t \in DOMAIN timers' :
        /\ timers'[t].username = k[1] /\ timers'[t].room = k[2]
        /\ timers'[t].state = "waiting"
        /\ t \notin DOMAIN timers \/ timers[t] # timers'[t]

NewMessageIds(es) ==
    LET sent == SelectSeq(es, LAMBDA e : e.event = "new_message")
    IN [i \in 1..Len(sent) |-> sent[i].message.id]

Observe ==
    /\ delivered' = delivered \o NewMessageIds(emitted')
    /\ grace' = [k \in Keys |->
                IF Joined(emitted', k[1], k[2]) THEN "none"
                ELSE IF TimerStarted(k) THEN "open"
                ELSE IF Left(emitted', k[1], k[2])
                THEN CASE grace[k] = "open" -> "left"
                       [] grace[k] = "left" -> "twice"
                       [] OTHER -> grace[k]
                ELSE grace[k]]

----------------------------------------------------------------------------
Init ==
    /\ conn = [s \in AllSids |-> "new"]
    /\ online_users = EmptyDict
    /\ room_users = EmptyDict
    /\ global_online = {}
    /\ pending_disconnects = EmptyDict
    /\ explicit_leaves = {}
    /\ timers = EmptyDict
    /\ messages = << >>
    /\ receipts = EmptyDict
    /\ sending = EmptyDict
    /\ marking = EmptyDict
    /\ joining = EmptyDict
    /\ request = Handled("none", 0, "none")
    /\ emitted = << >>
    /\ delivered = << >>
    /\ grace = [k \in Keys |-> "none"]

\* The events of the connections S, with join payloads from U and R, and the
\* Timer threads.
Presence(S, U, R) ==
    \/ \E sid \in S : HandleConnect(sid) /\ Observe
    \/ \E sid \in S : HandleDisconnect(sid) /\ Observe
    \/ \E sid \in S : \E u \in U : \E r \in R : HandleJoin(sid, u, r) /\ Observe
    \/ \E sid \in S : HandleLeave(sid) /\ Observe
    \/ \E t \in DOMAIN timers : TimerFire(t) /\ Observe
    \/ \E t \in DOMAIN timers : TimerCallback(t) /\ Observe

Next == Presence(Sids, UsernameInputs, RoomInputs)

Spec == Init /\ [][Next]_vars

NextRace == Presence(RaceSids, RaceUsernameInputs, RaceRoomInputs)

SpecRace == Init /\ [][NextRace]_vars

\* The message handlers of the connections S.
Messaging(S) ==
    \/ \E sid \in S : \E c \in ContentInputs : SendMessage(sid, c) /\ Observe
    \/ \E sid \in S : SendReceipt(sid) /\ Observe
    \/ \E sid \in S : SendEmit(sid) /\ Observe
    \/ \E sid \in S : \E ids \in MessageIdsInputs : MarkRead(sid, ids) /\ Observe
    \/ \E sid \in S : MarkReadCommit(sid) /\ Observe

\* The message handlers, for connections that join a room once.
NextStore ==
    \/ \E sid \in Sids : HandleConnect(sid) /\ Observe
    \/ \E sid \in Sids : \E u \in UsernameInputs : \E r \in RoomInputs :
          sid \notin DOMAIN online_users /\ HandleJoin(sid, u, r) /\ Observe
    \/ Messaging(Sids)

SpecStore == Init /\ [][NextStore]_vars

\* Connections that join and leave, the join handlers running concurrently;
\* no connection is lost and no timer is started.
NextJoin ==
    \/ \E sid \in Sids : HandleConnect(sid) /\ Observe
    \/ \E sid \in Sids : \E u \in UsernameInputs : \E r \in RoomInputs :
          JoinCheck(sid, u, r) /\ Observe
    \/ \E sid \in Sids : JoinRegister(sid) /\ Observe
    \/ \E sid \in Sids : HandleLeave(sid) /\ Observe

SpecJoin == Init /\ [][NextJoin]_vars

\* Connections that join, send and leave; nothing is marked read, no
\* connection is lost and no timer is started.
NextSend ==
    \/ \E sid \in Sids : HandleConnect(sid) /\ Observe
    \/ \E sid \in Sids : \E u \in UsernameInputs : \E r \in RoomInputs :
          sid \notin DOMAIN online_users /\ HandleJoin(sid, u, r) /\ Observe
    \/ \E sid \in Sids : HandleLeave(sid) /\ Observe
    \/ \E sid \in Sids : \E c \in ContentInputs : SendMessage(sid, c) /\ Observe
    \/ \E sid \in Sids : SendReceipt(sid) /\ Observe
    \/ \E sid \in Sids : SendEmit(sid) /\ Observe

SpecSend == Init /\ [][NextSend]_vars

----------------------------------------------------------------------------
\* Properties of the presence registry.

\* A connection that is connected and has a PresenceEntry for (username, room).
Holds(s, username, room) ==
    /\ s \in DOMAIN online_users
    /\ conn[s] = "connected"
    /\ online_users[s].username = username
    /\ online_users[s].room = room

TimerKey(t) == << timers[t].username, timers[t].room >>

JoinAccepted(req) == req.event = "join" /\ req.outcome \in {"joined", "reconnected"}

\* C1: a join of (u, r) that is accepted while a grace timer for (u, r) started
\* by a disconnect has not yet fired announces nothing: the join broadcasts no
\* "user_joined" and no "user_left" for (u, r), and the timer is cancelled
\* before it fires, so that it never broadcasts "user_left".
C1_RejoinWithinGraceIsSilent ==
    [][ \A t \in DOMAIN timers :
          ( /\ timers[t].state = "waiting"
            /\ JoinAccepted(request')
            /\ online_users'[request'.sid] =
                 [username |-> timers[t].username, room |-> timers[t].room] )
          => ( /\ ~Announced(emitted', timers[t].username, timers[t].room)
               /\ ~Left(emitted', timers[t].username, timers[t].room)
               /\ t \notin DOMAIN timers' ) ]_vars

\* C2: when the callback of a grace timer runs after a reconnect has cancelled
\* the timer, it removes nobody from the room membership or from the global
\* online set and broadcasts no "user_left".
C2_SupersededTimerIsNoOp ==
    [][ (request'.event = "timer" /\ request'.outcome = "superseded")
          => ( /\ room_users' = room_users
               /\ global_online' = global_online
               /\ \A i \in 1..Len(emitted') : emitted'[i].event # "user_left" ) ]_vars

\* C3: from the disconnect that starts the grace period of (u, r) until the
\* next accepted join of (u, r), "user_left" for (u, r) is broadcast once and
\* not twice: it is still to come only while a timer of (u, r) is alive, and
\* the expiry that broadcasts it leaves u out of r's membership and, when u
\* has no presence entry and no pending disconnect, out of the global set.
C3_ExpiryAnnouncedOnce ==
    /\ [](\A k \in Keys :
            /\ grace[k] # "twice"
            /\ grace[k] = "open" => \E t \in DOMAIN timers : TimerKey(t) = k)
    /\ [][ \A k \in Keys :
             ( /\ grace[k] = "open"
               /\ request'.event = "timer" /\ request'.outcome = "expired"
               /\ Left(emitted', k[1], k[2]) )
             => ( /\ grace'[k] = "left"
                  /\ k[1] \notin RoomUsersIn(room_users', k[2])
                  /\ ( /\ ~ \E s \in DOMAIN online_users' : online_users'[s].username = k[1]
                       /\ ~ \E p \in DOMAIN pending_disconnects' : p[1] = k[1] )
                     => k[1] \notin global_online' ) ]_vars

\* C4: a username is in the global online set exactly when some presence
\* entry or some pending disconnect carries it.
C4_GlobalOnlineIffPresent ==
    \A u \in Users :
        u \in global_online
          <=> ( \/ \E s \in DOMAIN online_users : online_users[s].username = u
                \/ \E p \in DOMAIN pending_disconnects : p[1] = u )

\* C5: a username is in the membership of a room exactly when some presence
\* entry carries (username, room) or a pending disconnect for the pair exists.
C5_MembershipIffPresent ==
    \A u \in Users, r \in Rooms :
        u \in get_room_users(r)
          <=> ( \/ \E s \in DOMAIN online_users :
                      online_users[s] = [username |-> u, room |-> r]
                \/ <<u, r>> \in DOMAIN pending_disconnects )

\* C6: the leave of a connection in a room broadcasts exactly one "user_left",
\* for its user and room, and the disconnect of a connection flagged as an
\* explicit leave only consumes the flag: it changes no presence state, starts
\* no timer and emits nothing.
C6_LeaveThenDisconnectLeavesOnce ==
    [][ /\ (request'.event = "leave" /\ request'.outcome = "left")
            => ( /\ Cardinality({ i \in 1..Len(emitted') : emitted'[i].event = "user_left" }) = 1
                 /\ Left(emitted', online_users[request'.sid].username,
                                   online_users[request'.sid].room) )
        /\ \A s \in AllSids :
              (s \in explicit_leaves /\ request'.event = "disconnect" /\ request'.sid = s)
              => ( /\ explicit_leaves' = explicit_leaves \ {s}
                   /\ UNCHANGED registry
                   /\ emitted' = << >> ) ]_vars

C6_Witness ==
    /\ request.event = "disconnect" /\ request.outcome = "explicit_leave"
    /\ request.sid \notin DOMAIN online_users
    /\ request.sid \notin explicit_leaves

\* C7: a join of (u, r) made while another connected connection holds (u, r)
\* and no pending disconnect for (u, r) exists is not accepted; a join
\* rejected as taken emits only the error and changes nothing.
C7_NameConflictRejected ==
    [][ /\ JoinAccepted(request')
            => ~ ( /\ << online_users'[request'.sid].username,
                         online_users'[request'.sid].room >> \notin DOMAIN pending_disconnects
                   /\ \E s \in AllSids \ {request'.sid} :
                         Holds(s, online_users'[request'.sid].username,
                                  online_users'[request'.sid].room) )
        /\ (request'.event = "join" /\ request'.outcome = "taken")
            => ( /\ UNCHANGED << registry, explicit_leaves, store >>
                 /\ \A i \in 1..Len(emitted') : emitted'[i].event = "error" ) ]_vars

\* C8: the non-explicit disconnect of a connection whose (username, room) is
\* still held by another connection leaves the room membership and the global
\* online set as they are and creates no pending disconnect and no timer.
C8_OtherTabKeepsMembership ==
    [][ \A s \in AllSids :
          ( /\ request'.event = "disconnect" /\ request'.sid = s
            /\ s \notin explicit_leaves
            /\ s \in DOMAIN online_users
            /\ \E o \in DOMAIN online_users : o # s /\ online_users[o] = online_users[s] )
          => ( /\ room_users' = room_users
               /\ global_online' = global_online
               /\ pending_disconnects' = pending_disconnects
               /\ timers' = timers ) ]_vars

C8_Witness ==
    /\ request.event = "disconnect" /\ request.outcome = "still_in_room"
    /\ \E u \in global_online : \E r \in DOMAIN room_users : u \in room_users[r]
          /\ \E s \in DOMAIN online_users : online_users[s] = [username |-> u, room |-> r]

----------------------------------------------------------------------------
\* Properties of the message handlers.

\* C9: within a room, "new_message" broadcasts are emitted in the order in
\* which their messages were committed, that is by increasing message id.
C9_BroadcastsInCommitOrder ==
    \A i \in 1..Len(delivered) : \A j \in 1..Len(delivered) :
        (i < j /\ messages[delivered[i]].room = messages[delivered[j]].room)
        => delivered[i] < delivered[j]

\* C10: the read_receipt table never holds more than one row for a
\* (message_id, username) pair, and a mark_read step that leaves the table as
\* it was broadcasts no "read_receipts_updated".
C10_MarkReadIdempotent ==
    /\ [](\A k \in DOMAIN receipts : receipts[k] = 1)
    /\ [][ (request'.event = "mark_read" /\ receipts' = receipts)
             => \A i \in 1..Len(emitted') : emitted'[i].event # "read_receipts_updated" ]_vars

\* A mark_read of a message the caller had already marked (the author is
\* someone else), alone or repeated in the batch, that changed nothing.
C10_Witness ==
    /\ request.event = "mark_read" /\ request.outcome = "nothing_updated"
    /\ emitted = << >>
    /\ request.sid \in DOMAIN online_users
    /\ \E i \in 1..Len(request.message_ids) :
          LET m == request.message_ids[i]
              u == online_users[request.sid].username
          IN /\ m \in 1..Len(messages)
             /\ messages[m].room = online_users[request.sid].room
             /\ messages[m].username # u
             /\ <<m, u>> \in DOMAIN receipts /\ receipts[<<m, u>>] = 1

----------------------------------------------------------------------------
\* Properties of the message store and of what joins and broadcasts show of it.

\* The to_dict records a client receives in the events es: the message of every
\* "new_message" and the history of every "room_joined".
ShownMessages(es) ==
    { es[i].message : i \in { j \in 1..Len(es) : es[j].event = "new_message" } }
    \cup UNION { { es[i].messages[j] : j \in 1..Len(es[i].messages) } :
                 i \in { j \in 1..Len(es) : es[j].event = "room_joined" } }

\* C11: every message shown to a client, in the history of a "room_joined" or
\* in a "new_message" broadcast, has its author in read_by; and a username
\* other than the author enters the read_by of a message only by a mark_read
\* of a connection of that username.
C11_AuthorHasReadOwnMessage ==
    /\ [](\A m \in ShownMessages(emitted) : m.username \in m.read_by)
    /\ [][ \A k \in DOMAIN receipts' \ DOMAIN receipts :
             k[2] # messages'[k[1]].username
             => ( /\ request'.event = "mark_read"
                  /\ request'.sid \in DOMAIN online_users
                  /\ online_users[request'.sid].username = k[2] ) ]_vars

----------------------------------------------------------------------------
\* Further properties of the presence registry.

\* C12: every room with an entry in room_users has a non-empty membership set,
\* and a step that deletes a room's entry deletes the set that held just the
\* one user whose departure the step broadcasts.
C12_RoomEntryIffNonEmpty ==
    /\ [](\A r \in DOMAIN room_users : room_users[r] # {})
    /\ [][ \A r \in DOMAIN room_users \ DOMAIN room_users' :
             \E u \in room_users[r] : room_users[r] = {u} /\ Left(emitted', u, r) ]_vars

\* The last member of a room has gone, by leave or by expiry, the room's
\* entry with it, while another room keeps its entry.
C12_Witness ==
    /\ request.event \in {"leave", "timer"}
    /\ DOMAIN room_users # {}
    /\ \E i \in 1..Len(emitted) :
          /\ emitted[i].event = "user_left"
          /\ emitted[i].room_users = {}
          /\ emitted[i].room \notin DOMAIN room_users

\* C13: a connection whose transport disconnect has been handled has no
\* presence entry.
C13_NoEntryAfterDisconnect ==
    \A s \in AllSids : conn[s] = "gone" => s \notin DOMAIN online_users

\* C14: a join with a non-empty username u and room r is rejected as taken
\* only when a connected connection other than the caller holds (u, r); when
\* none does, the join is accepted and gives the caller the entry (u, r).
C14_TakenOnlyByLiveConnection ==
    [][ \A sid \in AllSids :
        \A du \in UsernameInputs \cup RaceUsernameInputs :
        \A dr \in RoomInputs \cup RaceRoomInputs :
          ( /\ Strip(du) # << >> /\ Strip(dr) # << >>
            /\ HandleJoin(sid, du, dr) )
          => LET live == \E s \in AllSids \ {sid} : Holds(s, Strip(du), Strip(dr))
             IN /\ request'.outcome = "taken" => live
                /\ ~live => ( /\ JoinAccepted(request')
                              /\ online_users'[sid] =
                                   [username |-> Strip(du), room |-> Strip(dr)] ) ]_vars

\* C15: when a connection holding (u, r) leaves while another connected
\* connection holds (u, r) too, u is still in the membership of r afterwards.
C15_LeaveKeepsUserOfOtherConnection ==
    [][ \A s \in AllSids :
          ( /\ request'.event = "leave" /\ request'.sid = s
            /\ s \in DOMAIN online_users
            /\ online_users[s].username \in get_room_users(online_users[s].room)
            /\ \E o \in AllSids \ {s} :
                  Holds(o, online_users[s].username, online_users[s].room) )
          => online_users[s].username \in RoomUsersIn(room_users', online_users[s].room) ]_vars

----------------------------------------------------------------------------
\* Further properties of the message handlers.

\* The ids of a batch that name a message of the given room.
InRoom(message_ids, room) ==
    { message_ids[i] : i \in 1..Len(message_ids) } \cap
    { m \in 1..Len(messages) : messages[m].room = room }

\* C16: every receipt is for a message that exists; a receipt created by
\* mark_read, and every update of a "read_receipts_updated" broadcast, is for
\* a message of the room the caller was in; and the ids of a batch that name
\* a message of that room not yet read by the caller are all taken up, whatever
\* other ids the batch holds.
C16_MarkReadSkipsForeignIds ==
    /\ [](\A k \in DOMAIN receipts : k[1] \in 1..Len(messages))
    /\ [][ request'.event = "mark_read" =>
             /\ \A k \in DOMAIN receipts' \ DOMAIN receipts :
                   messages[k[1]].room = marking[request'.sid].room
             /\ \A i \in 1..Len(emitted') :
                   emitted'[i].event = "read_receipts_updated" =>
                     \A j \in 1..Len(emitted'[i].updates) :
                        emitted'[i].updates[j].message_id
                          \in InRoom(request'.message_ids, emitted'[i].room)
             /\ request'.outcome \in {"nothing_updated", "receipts_added"} =>
                   LET username == online_users[request'.sid].username
                       room == online_users[request'.sid].room
                       added == IF request'.sid \in DOMAIN marking'
                                THEN { marking'[request'.sid].updated_messages[i] :
                                         i \in 1..Len(marking'[request'.sid].updated_messages) }
                                ELSE {}
                   IN added = { m \in InRoom(request'.message_ids, room) :
                                  ~HasReceipt(receipts, m, username) } ]_vars

\* A batch naming a message of another room and a message of the caller's
\* room: the second is taken up, the first is not.
C16_Witness ==
    /\ request.event = "mark_read" /\ request.outcome = "receipts_added"
    /\ request.sid \in DOMAIN marking
    /\ \E i \in 1..Len(request.message_ids) :
          /\ request.message_ids[i] \in 1..Len(messages)
          /\ messages[request.message_ids[i]].room # marking[request.sid].room
    /\ \E i \in 1..Len(request.message_ids) :
          /\ request.message_ids[i] \in 1..Len(messages)
          /\ messages[request.message_ids[i]].room = marking[request.sid].room
    /\ \A i \in 1..Len(marking[request.sid].updated_messages) :
          messages[marking[request.sid].updated_messages[i]].room = marking[request.sid].room

\* C17: a send of a connection without a presence entry persists nothing, starts
\* nothing and emits only the error to its caller; a send whose content is
\* empty once stripped changes nothing and emits nothing; a send that persists
\* a message persists the stripped content under the room and username of the
\* sender's presence entry, and no stored message has an empty content.
C17_SendNeedsRoomAndContent ==
    /\ [](\A m \in 1..Len(messages) : messages[m].content # << >>)
    /\ [][ \A sid \in AllSids : \A c \in ContentInputs :
             SendMessage(sid, c) =>
               /\ Strip(c) = << >>
                    => UNCHANGED << registry, store >> /\ emitted' = << >>
               /\ sid \notin DOMAIN online_users
                    => /\ UNCHANGED << registry, store >>
                       /\ \A i \in 1..Len(emitted') :
                             emitted'[i].event = "error" /\ emitted'[i].to = "caller"
               /\ messages' # messages
                    => /\ sid \in DOMAIN online_users
                       /\ messages' = Append(messages,
                                             [room |-> online_users[sid].room,
                                              username |-> online_users[sid].username,
                                              content |-> Strip(c)]) ]_vars

\* A connection that has left its room sent a non-empty content and was
\* refused, the messages sent before staying as they were.
C17_Witness ==
    /\ request.event = "send_message" /\ request.outcome = "not_in_room"
    /\ request.sid \in explicit_leaves
    /\ request.sid \notin DOMAIN online_users
    /\ \E m \in 1..Len(messages) :
          /\ messages[m].username \notin global_online
          /\ \A s \in DOMAIN online_users : online_users[s].username # messages[m].username

\* C18: no two connected connections hold the same (username, room).
C18_OneConnectionPerName ==
    \A s \in AllSids : \A o \in AllSids :
        ( /\ s # o
          /\ s \in DOMAIN online_users
          /\ Holds(o, online_users[s].username, online_users[s].room) )
        => conn[s] # "connected"

\* C19: no (username, room) has a pending disconnect while a connected
\* connection holds it, and no (username, room) has two timers that are both
\* still to run remove_user_immediately uncancelled.
C19_PendingExcludesPresence ==
    /\ \A k \in DOMAIN pending_disconnects :
          ~ \E s \in AllSids : Holds(s, k[1], k[2])
    /\ \A t \in DOMAIN timers : \A o \in DOMAIN timers :
          (t # o /\ TimerKey(t) = TimerKey(o))
          => (timers[t].cancelled \/ timers[o].cancelled)

\* The step is an accepted join, a leave, a disconnect or a timer callback
\* for the pair k.
Concerns(k) ==
    LET pair == [username |-> k[1], room |-> k[2]] IN
    \/ /\ JoinAccepted(request')
       /\ online_users'[request'.sid] = pair
    \/ /\ request'.event \in {"leave", "disconnect"}
       /\ request'.sid \in DOMAIN online_users
       /\ online_users[request'.sid] = pair
    \/ /\ request'.event = "timer"
       /\ request'.outcome \in {"expired", "superseded"}
       /\ Left(emitted', k[1], k[2])

\* C20: a join, leave, disconnect or timer callback for (u, r) leaves the
\* membership of every other room and the pending disconnect of every other
\* pair as they were.
C20_OtherRoomsUntouched ==
    [][ \A k \in Keys : Concerns(k) =>
          /\ \A r \in Rooms \ {k[2]} :
                RoomUsersIn(room_users', r) = RoomUsersIn(room_users, r)
          /\ \A p \in Keys \ {k} :
                /\ p \in DOMAIN pending_disconnects' <=> p \in DOMAIN pending_disconnects
                /\ p \in DOMAIN pending_disconnects
                     => pending_disconnects'[p] = pending_disconnects[p] ]_vars

\* A grace period has expired for a user who is a member of another room too
\* while another pair has its pending disconnect.
C20_Witness ==
    /\ request.event = "timer" /\ request.outcome = "expired"
    /\ \E i \in 1..Len(emitted) :
          /\ emitted[i].event = "user_left"
          /\ \E r \in DOMAIN room_users :
                r # emitted[i].room /\ emitted[i].username \in room_users[r]
          /\ \E p \in DOMAIN pending_disconnects :
                p # << emitted[i].username, emitted[i].room >>

====
